---- MODULE Spec2Model ----
(***************************************************************************)
(* Model of the CVTE "Factory Auto Test" serial protocol tool.             *)
(*                                                                         *)
(* The codec (shared/cvteProtocol.js) is a set of pure functions; they are *)
(* operators here, and the specification Spec applies them to byte         *)
(* sequences drawn from bounded sets: frames produced by buildCommand,     *)
(* frames a device may send (well-formed or damaged in any combination of  *)
(* header, length, protocol type and checksum) and truncated frames.       *)
(*                                                                         *)
(* The dispatcher of the command line tool (cli/commands.js with           *)
(* cli/serialClient.js) is the specification SpecCli: one invocation of    *)
(* executeCommand, with the callbacks of the serial port as steps; the     *)
(* same with fairness is FairSpecCli.  The cards of the web UI's device    *)
(* test page, with the socket handlers of the server, are SpecWeb.         *)
(* The server process itself (server/index.js), with the SerialPort        *)
(* objects it creates, their open and close events and the signals it      *)
(* handles, is SpecServer.                                                 *)
(*                                                                         *)
(* JavaScript values are represented as follows:                           *)
(*   number[] / Uint8Array / Buffer  a sequence of integers                *)
(*   null, undefined                 Null, Undefined where a number is     *)
(*                                   possible, NoValue elsewhere           *)
(*   message strings                 TLA+ strings, built by concatenation  *)
(*   strings that are taken apart    a sequence of one-character strings   *)
(*   String.fromCharCode(...)        the sequence of UTF-16 code units     *)
(*   an exception                    [thrown |-> <error class>]            *)
(*   a promise                       [state |-> ...] with value or reason  *)
(***************************************************************************)
EXTENDS Integers, Sequences, FiniteSets, TLC

(***************************************************************************)
(* Bounds of the model                                                     *)
(***************************************************************************)
\* longest payload built from PayloadBytes in every combination
MaxPayloadLen == 2
\* longest payload of a frame that arrives damaged
MaxDamagedLen == 1
\* longest byte sequence given to calculateChecksum in every combination
MaxSumLen == 3
\* most commands the cards of the web UI send in one run
MaxSends == 3
\* longest packet built from PacketBytes in every combination
MaxPacketLen == 2
\* longest payload of a built frame that has one byte replaced by any other
MaxCorruptLen == 1
\* most SerialPort objects the server creates in one run
MaxPorts == 3
\* most 'send-data' requests the server handles in one run
MaxRequests == 1

(***************************************************************************)
(* JavaScript values                                                       *)
(***************************************************************************)
Null == -1
Undefined == -2

Byte == 0..255

Min(a, b) == IF a < b THEN a ELSE b
Max(a, b) == IF a > b THEN a ELSE b

\* new Uint8Array(data): every element is stored modulo 2^8, and a value that
\* is not a number (none is negative here) as 0
Uint8Array(data) ==
  [i \in 1..Len(data) |-> IF data[i] < 0 THEN 0 ELSE data[i] % 256]

\* arr[i] with a 0-based index: undefined outside the array
At(arr, i) == IF i >= 0 /\ i < Len(arr) THEN arr[i + 1] ELSE Undefined

\* arr.slice(start, end): 0-based, end exclusive, negative counts from the end
Slice(arr, start, end) ==
  LET n    == Len(arr)
      from == IF start < 0 THEN Max(n + start, 0) ELSE Min(start, n)
      to   == IF end < 0 THEN Max(n + end, 0) ELSE Min(end, n)
  IN  IF from >= to THEN <<>> ELSE SubSeq(arr, from + 1, to)

HexDigits == <<"0", "1", "2", "3", "4", "5", "6", "7",
               "8", "9", "a", "b", "c", "d", "e", "f">>

\* n.toString(16) for a number n >= 0: lowercase, no padding
RECURSIVE ToString16(_)
ToString16(n) ==
  IF n < 16 THEN HexDigits[n + 1]
  ELSE ToString16(n \div 16) \o HexDigits[(n % 16) + 1]

UpperHexDigits == <<"0", "1", "2", "3", "4", "5", "6", "7",
                    "8", "9", "A", "B", "C", "D", "E", "F">>

\* b.toString(16).padStart(2, '0').toUpperCase() for a byte b
HexByte(b) == UpperHexDigits[(b \div 16) + 1] \o UpperHexDigits[(b % 16) + 1]

(***************************************************************************)
(* PROTOCOL constants                                                      *)
(***************************************************************************)
SYNC_BYTE == 255
START_BYTE == 51
PROTOCOL_TYPE == 3

GET_MAC_ADDR == 12
RET_MAC_ADDR == 13
GET_CHECKSUM == 18
RET_CHECKSUM == 19
GET_SOURCE == 20
RET_SOURCE == 21
SET_SOURCE == 22
GET_IP_INFO == 49
RET_IP_INFO == 50
GET_WIFI_STATUS == 51
RET_WIFI_STATUS == 52
CHECK_BLUETOOTH == 56
RET_BLUETOOTH_STATUS == 57
ACK == 1

SOURCE_NAMES ==
  <<"ATV", "DTV", "DVBS", "DVBC", "DVBT", "DVBT2", "VGA", "VGA2",
    "HDMI1", "HDMI2", "HDMI3", "HDMI4", "HDMI5", "SCART1", "SCART2",
    "AV1", "AV2", "AV3", "AV4", "YPBPR1", "YPBPR2", "YPBPR3", "YPBPR4",
    "USB1", "USB2", "USB3", "USB4">>

STATUS_NAMES == <<"Normal", "Checking...", "Failed">>

(***************************************************************************)
(* Checksum and frame construction                                         *)
(***************************************************************************)
\* sum += bytes[i] for i from lo to hi (1-based); the range is halved so that
\* the evaluation of a 255-byte frame stays shallow
RECURSIVE SumRange(_, _, _)
SumRange(bytes, lo, hi) ==
  IF lo > hi THEN 0
  ELSE IF lo = hi THEN bytes[lo]
  ELSE LET mid == (lo + hi) \div 2
       IN  SumRange(bytes, lo, mid) + SumRange(bytes, mid + 1, hi)

\* the bug of forgetting the final "& 0xFF": an all-zero sum gives 0x100
calculateChecksumNoMask(data) ==
  LET bytes == Uint8Array(data)
      sum   == SumRange(bytes, 1, Len(bytes))
  IN  256 - (sum % 256)

calculateChecksum(data) ==
  LET bytes == Uint8Array(data)
      sum   == SumRange(bytes, 1, Len(bytes))
  IN  (256 - (sum % 256)) % 256

\* the bug of summing the whole packet, header included
buildCommandSumAll(cmdId, payload) ==
  LET packetLength == 6 + Len(payload)
      packet == <<SYNC_BYTE, START_BYTE, packetLength, PROTOCOL_TYPE, cmdId>>
                  \o payload
  IN  Append(packet, calculateChecksum(packet))

buildCommand(cmdId, payload) ==
  LET packetLength == 6 + Len(payload)
      packet == <<SYNC_BYTE, START_BYTE, packetLength, PROTOCOL_TYPE, cmdId>>
                  \o payload
      checksum == calculateChecksum(Slice(packet, 2, Len(packet)))
  IN  Append(packet, checksum)

(***************************************************************************)
(* validateResponse                                                        *)
(***************************************************************************)
\* the bug of checking the protocol type before the checksum
FrameErrorTypeFirst(bytes) ==
  IF Len(bytes) < 6 THEN "Response too short"
  ELSE IF bytes[1] # SYNC_BYTE
    THEN "Invalid sync byte: 0x" \o ToString16(bytes[1])
  ELSE IF bytes[2] # START_BYTE
    THEN "Invalid start byte: 0x" \o ToString16(bytes[2])
  ELSE IF Len(bytes) # bytes[3]
    THEN "Length mismatch: expected " \o ToString(bytes[3])
           \o ", got " \o ToString(Len(bytes))
  ELSE IF bytes[4] # PROTOCOL_TYPE
    THEN "Invalid protocol type: 0x" \o ToString16(bytes[4])
  ELSE LET receivedChecksum   == bytes[Len(bytes)]
           calculatedChecksum == calculateChecksum(Slice(bytes, 2, -1))
       IN  IF receivedChecksum # calculatedChecksum
             THEN "Checksum mismatch: expected 0x"
                    \o ToString16(calculatedChecksum)
                    \o ", got 0x" \o ToString16(receivedChecksum)
           ELSE ""

\* the bug of not verifying the checksum
FrameErrorNoChecksum(bytes) ==
  IF Len(bytes) < 6 THEN "Response too short"
  ELSE IF bytes[1] # SYNC_BYTE
    THEN "Invalid sync byte: 0x" \o ToString16(bytes[1])
  ELSE IF bytes[2] # START_BYTE
    THEN "Invalid start byte: 0x" \o ToString16(bytes[2])
  ELSE IF Len(bytes) # bytes[3]
    THEN "Length mismatch: expected " \o ToString(bytes[3])
           \o ", got " \o ToString(Len(bytes))
  ELSE IF bytes[4] # PROTOCOL_TYPE
    THEN "Invalid protocol type: 0x" \o ToString16(bytes[4])
  ELSE ""

\* The checks on the frame itself, in the order of the code; "" when all of
\* them pass, and otherwise the error string of the first one that fails.
FrameError(bytes) ==
  IF Len(bytes) < 6 THEN "Response too short"
  ELSE IF bytes[1] # SYNC_BYTE
    THEN "Invalid sync byte: 0x" \o ToString16(bytes[1])
  ELSE IF bytes[2] # START_BYTE
    THEN "Invalid start byte: 0x" \o ToString16(bytes[2])
  ELSE IF Len(bytes) # bytes[3]
    THEN "Length mismatch: expected " \o ToString(bytes[3])
           \o ", got " \o ToString(Len(bytes))
  ELSE LET receivedChecksum   == bytes[Len(bytes)]
           calculatedChecksum == calculateChecksum(Slice(bytes, 2, -1))
       IN  IF receivedChecksum # calculatedChecksum
             THEN "Checksum mismatch: expected 0x"
                    \o ToString16(calculatedChecksum)
                    \o ", got 0x" \o ToString16(receivedChecksum)
           ELSE IF bytes[4] # PROTOCOL_TYPE
             THEN "Invalid protocol type: 0x" \o ToString16(bytes[4])
           ELSE ""

\* the bug of leaving "!isAck" out of the response id check
UnexpectedIdNoAck(expectedCmdId, isAck, responseCmdId) ==
  expectedCmdId # Null /\ responseCmdId # expectedCmdId

\* expectedCmdId !== null && !isAck && responseCmdId !== expectedCmdId
UnexpectedId(expectedCmdId, isAck, responseCmdId) ==
  expectedCmdId # Null /\ ~isAck /\ responseCmdId # expectedCmdId

\* the bug of keeping the checksum byte in the payload
ExtractPayloadWithChecksum(bytes) == Slice(bytes, 5, Len(bytes))

\* bytes.slice(5, bytes.length - 1)
ExtractPayload(bytes) == Slice(bytes, 5, Len(bytes) - 1)

validateResponse(data, expectedCmdId) ==
  LET bytes == Uint8Array(data)
      error == FrameError(bytes)
  IN  IF error # "" THEN [valid |-> FALSE, error |-> error]
      ELSE
        LET responseCmdId == bytes[5]
            isAck         == responseCmdId = ACK
        IN  IF UnexpectedId(expectedCmdId, isAck, responseCmdId)
              THEN [valid |-> FALSE,
                    error |-> "Unexpected response ID: expected 0x"
                                \o ToString16(expectedCmdId)
                                \o ", got 0x" \o ToString16(responseCmdId)]
            ELSE [valid         |-> TRUE,
                  packetLength  |-> bytes[3],
                  protocolType  |-> bytes[4],
                  responseCmdId |-> responseCmdId,
                  isAck         |-> isAck,
                  payload       |-> ExtractPayload(bytes),
                  ackCmdId      |-> IF isAck THEN At(bytes, 6) ELSE Null,
                  ackError      |-> IF isAck THEN At(bytes, 5) ELSE Null]

(***************************************************************************)
(* Response decoders                                                       *)
(***************************************************************************)
\* String.fromCharCode(...payload): one UTF-16 code unit per element
extractAsciiString(payload) == [i \in 1..Len(payload) |-> payload[i] % 65536]

\* bytes.map(b => <two uppercase hex digits>).join(sep) over lo..hi (1-based),
\* the range halved as in SumRange
RECURSIVE JoinHex(_, _, _, _)
JoinHex(bytes, lo, hi, sep) ==
  IF lo > hi THEN ""
  ELSE IF lo = hi THEN HexByte(bytes[lo])
  ELSE LET mid == (lo + hi) \div 2
       IN  JoinHex(bytes, lo, mid, sep) \o sep
             \o JoinHex(bytes, mid + 1, hi, sep)

formatMacAddress(macBytes) == JoinHex(macBytes, 1, Len(macBytes), ":")

formatHexPayload(payload) == JoinHex(payload, 1, Len(payload), " ")

\* what a decoder returns for an ACK frame that carries an error code
DeviceError(ackError) ==
  [success |-> FALSE,
   error   |-> "Device returned error code: " \o ToString(ackError)]

\* an exception leaving the function instead of a return value
Thrown(class) == [thrown |-> class]

parseChecksumResponse(data) ==
  LET validation == validateResponse(data, RET_CHECKSUM)
  IN  IF ~validation.valid
        THEN [success |-> FALSE, error |-> validation.error]
      ELSE IF validation.isAck /\ validation.ackError # 0
        THEN DeviceError(validation.ackError)
      ELSE [success  |-> TRUE,
            checksum |-> extractAsciiString(validation.payload)]

\* the bug of replacing the validation error by a message of the decoder's own
parseIpResponseOwnError(data) ==
  LET validation == validateResponse(data, RET_IP_INFO)
  IN  IF ~validation.valid
        THEN [success |-> FALSE, error |-> "Invalid IP response"]
      ELSE IF validation.isAck /\ validation.ackError # 0
        THEN DeviceError(validation.ackError)
      ELSE [success |-> TRUE, ip |-> extractAsciiString(validation.payload)]

parseIpResponse(data) ==
  LET validation == validateResponse(data, RET_IP_INFO)
  IN  IF ~validation.valid
        THEN [success |-> FALSE, error |-> validation.error]
      ELSE IF validation.isAck /\ validation.ackError # 0
        THEN DeviceError(validation.ackError)
      ELSE [success |-> TRUE, ip |-> extractAsciiString(validation.payload)]

parseMacResponse(data) ==
  LET validation == validateResponse(data, RET_MAC_ADDR)
  IN  IF ~validation.valid
        THEN [success |-> FALSE, error |-> validation.error]
      ELSE IF validation.isAck /\ validation.ackError # 0
        THEN DeviceError(validation.ackError)
      ELSE [success |-> TRUE, mac |-> formatMacAddress(validation.payload)]

\* the bug of printing an unknown source id in decimal
parseSourceResponseDecimal(data) ==
  LET validation == validateResponse(data, RET_SOURCE)
  IN  IF ~validation.valid
        THEN [success |-> FALSE, error |-> validation.error]
      ELSE IF validation.isAck /\ validation.ackError # 0
        THEN DeviceError(validation.ackError)
      ELSE
        LET sourceId == At(validation.payload, 0)
        IN  IF sourceId \in 0..(Len(SOURCE_NAMES) - 1)
              THEN [success  |-> TRUE,
                    source   |-> SOURCE_NAMES[sourceId + 1],
                    sourceId |-> sourceId]
            ELSE IF sourceId = Undefined THEN Thrown("TypeError")
            ELSE [success  |-> TRUE,
                  source   |-> "Unknown(0x" \o ToString(sourceId) \o ")",
                  sourceId |-> sourceId]

\* SOURCE_NAMES[sourceId] || `Unknown(0x${sourceId.toString(16)})`: with an
\* empty payload sourceId is undefined, the table has no such key, and
\* undefined.toString throws a TypeError.
parseSourceResponse(data) ==
  LET validation == validateResponse(data, RET_SOURCE)
  IN  IF ~validation.valid
        THEN [success |-> FALSE, error |-> validation.error]
      ELSE IF validation.isAck /\ validation.ackError # 0
        THEN DeviceError(validation.ackError)
      ELSE
        LET sourceId == At(validation.payload, 0)
        IN  IF sourceId \in 0..(Len(SOURCE_NAMES) - 1)
              THEN [success  |-> TRUE,
                    source   |-> SOURCE_NAMES[sourceId + 1],
                    sourceId |-> sourceId]
            ELSE IF sourceId = Undefined THEN Thrown("TypeError")
            ELSE [success  |-> TRUE,
                  source   |-> "Unknown(0x" \o ToString16(sourceId) \o ")",
                  sourceId |-> sourceId]

\* STATUS_NAMES[statusCode] || `Unknown(${statusCode})`
StatusName(statusCode) ==
  IF statusCode \in 0..(Len(STATUS_NAMES) - 1)
    THEN STATUS_NAMES[statusCode + 1]
  ELSE IF statusCode = Undefined THEN "Unknown(undefined)"
  ELSE "Unknown(" \o ToString(statusCode) \o ")"

parseWifiResponse(data) ==
  LET validation == validateResponse(data, RET_WIFI_STATUS)
  IN  IF ~validation.valid
        THEN [success |-> FALSE, error |-> validation.error]
      ELSE IF validation.isAck /\ validation.ackError # 0
        THEN DeviceError(validation.ackError)
      ELSE
        LET statusCode == At(validation.payload, 0)
        IN  [success    |-> TRUE,
             status     |-> StatusName(statusCode),
             statusCode |-> statusCode]

parseBluetoothResponse(data) ==
  LET validation == validateResponse(data, RET_BLUETOOTH_STATUS)
  IN  IF ~validation.valid
        THEN [success |-> FALSE, error |-> validation.error]
      ELSE IF validation.isAck /\ validation.ackError # 0
        THEN DeviceError(validation.ackError)
      ELSE
        LET statusCode == At(validation.payload, 0)
        IN  [success    |-> TRUE,
             status     |-> StatusName(statusCode),
             statusCode |-> statusCode]

\* validation.ackCmdId?.toString(16) inside a template string
OptToString16(v) == IF v = Undefined THEN "undefined" ELSE ToString16(v)

\* the bug of never comparing the acknowledged command id
parseAckResponseAnyCommand(data, expectedCmdId) ==
  LET validation == validateResponse(data, Null)
  IN  IF ~validation.valid
        THEN [success |-> FALSE, error |-> validation.error]
      ELSE IF ~validation.isAck
        THEN [success |-> FALSE, error |-> "Expected ACK response"]
      ELSE IF validation.ackError # 0
        THEN DeviceError(validation.ackError)
      ELSE [success |-> TRUE]

parseAckResponse(data, expectedCmdId) ==
  LET validation == validateResponse(data, Null)
  IN  IF ~validation.valid
        THEN [success |-> FALSE, error |-> validation.error]
      ELSE IF ~validation.isAck
        THEN [success |-> FALSE, error |-> "Expected ACK response"]
      ELSE IF expectedCmdId # Null /\ validation.ackCmdId # expectedCmdId
        THEN [success |-> FALSE,
              error   |-> "Unexpected ACK command: expected 0x"
                            \o ToString16(expectedCmdId) \o ", got 0x"
                            \o OptToString16(validation.ackCmdId)]
      ELSE IF validation.ackError # 0
        THEN DeviceError(validation.ackError)
      ELSE [success |-> TRUE]

(***************************************************************************)
(* Response parsers of the web UI (client/src/utils)                       *)
(*                                                                         *)
(* The display strings hold the glyphs U+2713 (check mark), U+23F3         *)
(* (hourglass) and U+2717 (ballot x); they are written by code point here. *)
(***************************************************************************)
\* n.toString(16).toUpperCase()
ToString16Upper(n) ==
  IF n < 16 THEN UpperHexDigits[n + 1]
  ELSE UpperHexDigits[(n \div 16) + 1] \o UpperHexDigits[(n % 16) + 1]

parseBasicResponse(data) ==
  LET bytes == Uint8Array(data)
  IN  [bytes         |-> bytes,
       responseCmdId |-> IF Len(bytes) > 4 THEN bytes[5] ELSE 0,
       payload       |-> IF Len(bytes) > 5
                           THEN Slice(bytes, 5, Len(bytes) - 1)
                           ELSE <<>>]

webParseAckResponse(data) ==
  LET bytes == Uint8Array(data)
  IN  IF Len(bytes) < 7
        THEN [success |-> FALSE, display |-> "Invalid ACK response"]
      ELSE
        LET errorCode == bytes[6]
            cmdId     == bytes[7]
        IN  IF errorCode = 0
              THEN [success |-> TRUE,
                    display |-> "U+2713 ACK OK (CMD: 0x"
                                  \o ToString16Upper(cmdId) \o ")",
                    raw     |-> [errorCode |-> errorCode, cmdId |-> cmdId]]
            ELSE
              LET errorName == IF errorCode = 1 THEN "Unknown Command"
                               ELSE "Parameter Error"
              IN  [success |-> FALSE,
                   display |-> "U+2717 ACK Error: " \o errorName
                                 \o " (CMD: 0x" \o ToString16Upper(cmdId)
                                 \o ")",
                   raw     |-> [errorCode |-> errorCode, cmdId |-> cmdId]]

\* STATUS_NAMES[statusCode] || `Unknown (${statusCode})`
WebStatusName(statusCode) ==
  IF statusCode \in 0..(Len(STATUS_NAMES) - 1)
    THEN STATUS_NAMES[statusCode + 1]
  ELSE IF statusCode = Undefined THEN "Unknown (undefined)"
  ELSE "Unknown (" \o ToString(statusCode) \o ")"

\* statusCode === 0 ? check mark : statusCode === 1 ? hourglass : ballot x
StatusEmoji(statusCode) ==
  IF statusCode = 0 THEN "U+2713"
  ELSE IF statusCode = 1 THEN "U+23F3" ELSE "U+2717"

webParseWifiResponse(data) ==
  LET basic == parseBasicResponse(data)
  IN  IF basic.responseCmdId = ACK THEN webParseAckResponse(data)
      ELSE IF basic.responseCmdId # RET_WIFI_STATUS
        THEN [success |-> FALSE,
              display |-> "Unexpected response ID: 0x"
                            \o ToString16(basic.responseCmdId)]
      ELSE
        LET statusCode == At(basic.payload, 0)
            statusName == WebStatusName(statusCode)
        IN  [success |-> statusCode = 0,
             display |-> "WiFi: " \o StatusEmoji(statusCode) \o " "
                           \o statusName,
             raw     |-> [statusCode |-> statusCode,
                          statusName |-> statusName]]

webParseBluetoothResponse(data) ==
  LET basic == parseBasicResponse(data)
  IN  IF basic.responseCmdId = ACK THEN webParseAckResponse(data)
      ELSE IF basic.responseCmdId # RET_BLUETOOTH_STATUS
        THEN [success |-> FALSE,
              display |-> "Unexpected response (expected 0x39, got 0x"
                            \o ToString16(basic.responseCmdId) \o "): "
                            \o formatHexPayload(basic.bytes)]
      ELSE
        LET statusCode == At(basic.payload, 0)
            statusName == WebStatusName(statusCode)
        IN  [success |-> statusCode = 0,
             display |-> "Bluetooth: " \o StatusEmoji(statusCode) \o " "
                           \o statusName,
             raw     |-> [statusCode |-> statusCode,
                          statusName |-> statusName]]

webParseChecksumResponse(data) ==
  LET basic == parseBasicResponse(data)
  IN  IF basic.responseCmdId = ACK THEN webParseAckResponse(data)
      ELSE IF basic.responseCmdId # RET_CHECKSUM
        THEN [success |-> FALSE,
              display |-> "Unexpected response ID: 0x"
                            \o ToString16(basic.responseCmdId)]
      ELSE
        LET checksumStr == extractAsciiString(basic.payload)
        IN  [success |-> TRUE,
             display |-> [prefix |-> "Checksum: ", text |-> checksumStr],
             raw     |-> [checksum |-> checksumStr]]

webParseIpResponse(data) ==
  LET basic == parseBasicResponse(data)
  IN  IF basic.responseCmdId = ACK THEN webParseAckResponse(data)
      ELSE IF basic.responseCmdId # RET_IP_INFO
        THEN [success |-> FALSE,
              display |-> "Unexpected response ID: 0x"
                            \o ToString16(basic.responseCmdId)]
      ELSE
        LET ipStr == extractAsciiString(basic.payload)
        IN  [success |-> TRUE,
             display |-> [prefix |-> "IP: ", text |-> ipStr],
             raw     |-> [ip |-> ipStr]]

webParseMacResponse(data) ==
  LET basic == parseBasicResponse(data)
  IN  IF basic.responseCmdId = ACK THEN webParseAckResponse(data)
      ELSE IF basic.responseCmdId # RET_MAC_ADDR
        THEN [success |-> FALSE,
              display |-> "Unexpected response (expected 0x0D, got 0x"
                            \o ToString16(basic.responseCmdId) \o "): "
                            \o formatHexPayload(basic.bytes)]
      ELSE IF Len(basic.payload) # 6
        THEN [success |-> FALSE,
              display |-> "Error: Invalid MAC length ("
                            \o ToString(Len(basic.payload)) \o " bytes)"]
      ELSE
        LET macStr == formatMacAddress(basic.payload)
        IN  [success |-> TRUE,
             display |-> "MAC: " \o macStr,
             raw     |-> [mac |-> macStr, bytes |-> basic.payload]]

\* SOURCE_NAMES[sourceId] || `Unknown (${sourceId})`
WebSourceName(sourceId) ==
  IF sourceId \in 0..(Len(SOURCE_NAMES) - 1)
    THEN SOURCE_NAMES[sourceId + 1]
  ELSE IF sourceId = Undefined THEN "Unknown (undefined)"
  ELSE "Unknown (" \o ToString(sourceId) \o ")"

webParseSourceResponse(data) ==
  LET basic == parseBasicResponse(data)
  IN  IF basic.responseCmdId = ACK THEN webParseAckResponse(data)
      ELSE IF basic.responseCmdId # RET_SOURCE
        THEN [success |-> FALSE,
              display |-> "Unexpected response ID: 0x"
                            \o ToString16(basic.responseCmdId)]
      ELSE
        LET sourceId   == At(basic.payload, 0)
            sourceName == WebSourceName(sourceId)
        IN  [success |-> TRUE,
             display |-> "Current Source: " \o sourceName,
             raw     |-> [sourceId |-> sourceId, sourceName |-> sourceName]]

parseSetSourceResponse(data, targetSource) ==
  LET bytes == Uint8Array(data)
  IN  IF Len(bytes) < 7
        THEN [success |-> FALSE,
              display |-> "Response too short: " \o formatHexPayload(bytes)]
      ELSE IF bytes[5] = 1
        THEN
          LET errorCode  == bytes[6]
              ackedCmdId == bytes[7]
          IN  IF errorCode = 0
                THEN [success |-> TRUE,
                      display |-> "U+2713 Switched to " \o targetSource,
                      raw     |-> [targetSource |-> targetSource,
                                   ackedCmdId   |-> ackedCmdId]]
              ELSE
                LET errorName == IF errorCode = 1 THEN "Unknown Command"
                                 ELSE "Parameter Error"
                IN  [success |-> FALSE,
                     display |-> "U+2717 Failed: " \o errorName,
                     raw     |-> [errorCode  |-> errorCode,
                                  ackedCmdId |-> ackedCmdId]]
      ELSE [success |-> TRUE,
            display |-> "Response: " \o formatHexPayload(bytes)]

parseGenericResponse(data) ==
  LET basic == parseBasicResponse(data)
      bytes == basic.bytes
  IN  IF Len(bytes) < 6
        THEN [success |-> FALSE,
              display |-> "Invalid response (too short): "
                            \o formatHexPayload(bytes)]
      ELSE IF bytes[1] # 255 \/ bytes[2] # 51
        THEN [success |-> FALSE,
              display |-> "Invalid frame header: "
                            \o formatHexPayload(bytes)]
      ELSE
        CASE basic.responseCmdId = RET_CHECKSUM ->
               webParseChecksumResponse(data)
          [] basic.responseCmdId = RET_IP_INFO ->
               webParseIpResponse(data)
          [] basic.responseCmdId = RET_WIFI_STATUS ->
               webParseWifiResponse(data)
          [] basic.responseCmdId = RET_BLUETOOTH_STATUS ->
               webParseBluetoothResponse(data)
          [] basic.responseCmdId = RET_MAC_ADDR ->
               webParseMacResponse(data)
          [] basic.responseCmdId = RET_SOURCE ->
               webParseSourceResponse(data)
          [] basic.responseCmdId = ACK ->
               webParseAckResponse(data)
          [] OTHER ->
               [success |-> TRUE,
                display |-> "Unknown response (0x"
                              \o ToString16(basic.responseCmdId) \o "): "
                              \o formatHexPayload(bytes),
                raw     |-> [responseCmdId |-> basic.responseCmdId,
                             raw |-> formatHexPayload(bytes)]]

\* the parsers of the web UI by the name PARSERS knows them under
WebDecoders == {"checksum", "ip", "wifi", "bluetooth", "mac", "source",
                "ack", "setSource", "generic"}

\* the target a set-source card of the device test page names
TargetSource == "HDMI1"

WebDecode(decoder, data) ==
  CASE decoder = "checksum"  -> webParseChecksumResponse(data)
    [] decoder = "ip"        -> webParseIpResponse(data)
    [] decoder = "wifi"      -> webParseWifiResponse(data)
    [] decoder = "bluetooth" -> webParseBluetoothResponse(data)
    [] decoder = "mac"       -> webParseMacResponse(data)
    [] decoder = "source"    -> webParseSourceResponse(data)
    [] decoder = "ack"       -> webParseAckResponse(data)
    [] decoder = "setSource" -> parseSetSourceResponse(data, TargetSource)
    [] decoder = "generic"   -> parseGenericResponse(data)

\* The decoders by the name the command table knows them under.
Decoders == {"checksum", "ip", "mac", "source", "wifi", "bluetooth", "ack"}

TypedDecoders == Decoders \ {"ack"}

\* the response id a decoder passes to validateResponse
ExpectedResponseId(decoder) ==
  CASE decoder = "checksum"  -> RET_CHECKSUM
    [] decoder = "ip"        -> RET_IP_INFO
    [] decoder = "mac"       -> RET_MAC_ADDR
    [] decoder = "source"    -> RET_SOURCE
    [] decoder = "wifi"      -> RET_WIFI_STATUS
    [] decoder = "bluetooth" -> RET_BLUETOOTH_STATUS
    [] decoder = "ack"       -> Null

Decode(decoder, data, expectedCmdId) ==
  CASE decoder = "checksum"  -> parseChecksumResponse(data)
    [] decoder = "ip"        -> parseIpResponse(data)
    [] decoder = "mac"       -> parseMacResponse(data)
    [] decoder = "source"    -> parseSourceResponse(data)
    [] decoder = "wifi"      -> parseWifiResponse(data)
    [] decoder = "bluetooth" -> parseBluetoothResponse(data)
    [] decoder = "ack"       -> parseAckResponse(data, expectedCmdId)

(***************************************************************************)
(* Strings that are taken apart: a sequence of one-character strings       *)
(***************************************************************************)
UpperLetters == <<"A", "B", "C", "D", "E", "F", "G", "H", "I", "J", "K", "L",
                  "M", "N", "O", "P", "Q", "R", "S", "T", "U", "V", "W", "X",
                  "Y", "Z">>
LowerLetters == <<"a", "b", "c", "d", "e", "f", "g", "h", "i", "j", "k", "l",
                  "m", "n", "o", "p", "q", "r", "s", "t", "u", "v", "w", "x",
                  "y", "z">>

\* the bug of leaving the letter case of the name alone
toLowerCaseNoFold(str) == str

\* str.toLowerCase()
toLowerCase(str) ==
  [i \in 1..Len(str) |->
     IF \E k \in 1..Len(UpperLetters) : UpperLetters[k] = str[i]
       THEN LowerLetters[CHOOSE k \in 1..Len(UpperLetters) :
                           UpperLetters[k] = str[i]]
       ELSE str[i]]

\* str.toUpperCase()
toUpperCase(str) ==
  [i \in 1..Len(str) |->
     IF \E k \in 1..Len(LowerLetters) : LowerLetters[k] = str[i]
       THEN UpperLetters[CHOOSE k \in 1..Len(LowerLetters) :
                           LowerLetters[k] = str[i]]
       ELSE str[i]]

\* str.padStart(2, '0')
padStart2(str) ==
  IF Len(str) = 0 THEN <<"0", "0">>
  ELSE IF Len(str) = 1 THEN <<"0">> \o str
  ELSE str

\* the characters of a template string: `${value}`
RECURSIVE StringOf(_)
StringOf(str) ==
  IF Len(str) = 0 THEN "" ELSE str[1] \o StringOf(Tail(str))

\* the values an object literal inherits: obj.constructor is the function
\* Object and obj.__proto__ is Object.prototype; neither is undefined
ObjectConstructor == -3
ObjectPrototype == -4

\* Object.toString(16): the source text of the function
ObjectConstructorText ==
  <<"f", "u", "n", "c", "t", "i", "o", "n", " ", "O", "b", "j",
    "e", "c", "t", "(", ")", " ", "{", " ", "[", "n", "a", "t",
    "i", "v", "e", " ", "c", "o", "d", "e", "]", " ", "}">>

\* Object.prototype.toString(16)
ObjectPrototypeText ==
  <<"[", "o", "b", "j", "e", "c", "t", " ", "O", "b", "j", "e",
    "c", "t", "]">>

\* b.toString(16) of a packet element
RECURSIVE ElementToString16(_)
ElementToString16(b) ==
  IF b = ObjectConstructor THEN ObjectConstructorText
  ELSE IF b = ObjectPrototype THEN ObjectPrototypeText
  ELSE IF b < 16 THEN <<HexDigits[b + 1]>>
  ELSE Append(ElementToString16(b \div 16), HexDigits[(b % 16) + 1])

\* packet.map(b => b.toString(16).padStart(2, '0').toUpperCase()).join(' ')
RECURSIVE packetToHex(_)
packetToHex(packet) ==
  IF Len(packet) = 0 THEN <<>>
  ELSE LET first == toUpperCase(padStart2(ElementToString16(packet[1])))
       IN  IF Len(packet) = 1 THEN first
           ELSE first \o <<" ">> \o packetToHex(Tail(packet))

buildCommandHex(cmdId, payload) == packetToHex(buildCommand(cmdId, payload))

buildSetSourceCommand(sourceId) == buildCommandHex(SET_SOURCE, <<sourceId>>)

\* characters matched by \s that a command line can hold
Whitespace == {" ", "\t", "\n"}

\* hexCommand.replace(/\s+/g, '')
RemoveWhitespace(str) == SelectSeq(str, LAMBDA c : c \notin Whitespace)

\* the value of a hexadecimal digit, Undefined for any other character
HexValue(c) ==
  IF \E k \in 1..16 : HexDigits[k] = c \/ UpperHexDigits[k] = c
    THEN (CHOOSE k \in 1..16 : HexDigits[k] = c \/ UpperHexDigits[k] = c) - 1
    ELSE Undefined

\* Buffer.from(hexBytes, 'hex'): two digits per byte, cut off at the first
\* pair that is not two hexadecimal digits and at an odd last character
BufferFromHex(str) ==
  LET pairs == Len(str) \div 2
      ok(i) == /\ HexValue(str[2 * i - 1]) # Undefined
               /\ HexValue(str[2 * i]) # Undefined
      n     == CHOOSE m \in 0..pairs :
                 /\ \A i \in 1..m : ok(i)
                 /\ m = pairs \/ ~ok(m + 1)
  IN  [i \in 1..n |-> 16 * HexValue(str[2 * i - 1]) + HexValue(str[2 * i])]

\* parseInt(str, 16) of a string of at most two characters, none of them
\* whitespace, a sign or "x": the leading hexadecimal digits, NaN without any
NaN == -5

parseInt16(str) ==
  IF Len(str) = 0 \/ HexValue(str[1]) = Undefined THEN NaN
  ELSE IF Len(str) = 1 \/ HexValue(str[2]) = Undefined THEN HexValue(str[1])
  ELSE 16 * HexValue(str[1]) + HexValue(str[2])

\* for (i = 0; i < cleanHex.length; i += 2) parseInt(cleanHex.substr(i, 2), 16)
ParsePairs(cleanHex) ==
  [k \in 1..((Len(cleanHex) + 1) \div 2) |->
     parseInt16(SubSeq(cleanHex, 2 * k - 1, Min(2 * k, Len(cleanHex))))]

\* the bug of parsing the string without taking the whitespace out
hexToPacketKeepWhitespace(hexStr) == ParsePairs(hexStr)

hexToPacket(hexStr) == ParsePairs(RemoveWhitespace(hexStr))

(***************************************************************************)
(* The command table and the dispatcher (cli/commands.js)                  *)
(***************************************************************************)
SOURCE_IDS ==
  { [name |-> <<"a", "t", "v">>, id |-> 0],
    [name |-> <<"d", "t", "v">>, id |-> 1],
    [name |-> <<"d", "v", "b", "s">>, id |-> 2],
    [name |-> <<"d", "v", "b", "c">>, id |-> 3],
    [name |-> <<"d", "v", "b", "t">>, id |-> 4],
    [name |-> <<"d", "v", "b", "t", "2">>, id |-> 5],
    [name |-> <<"v", "g", "a">>, id |-> 6],
    [name |-> <<"h", "d", "m", "i", "1">>, id |-> 8],
    [name |-> <<"h", "d", "m", "i", "2">>, id |-> 9],
    [name |-> <<"h", "d", "m", "i", "3">>, id |-> 10],
    [name |-> <<"h", "d", "m", "i", "4">>, id |-> 11],
    [name |-> <<"h", "d", "m", "i", "5">>, id |-> 12],
    [name |-> <<"a", "v", "1">>, id |-> 15],
    [name |-> <<"a", "v", "2">>, id |-> 16],
    [name |-> <<"u", "s", "b", "1">>, id |-> 23],
    [name |-> <<"u", "s", "b", "2">>, id |-> 24] }

\* SOURCE_IDS[key]: own keys first, then the keys every object inherits
SourceIdOf(key) ==
  IF \E e \in SOURCE_IDS : e.name = key
    THEN (CHOOSE e \in SOURCE_IDS : e.name = key).id
  ELSE IF key = <<"c", "o", "n", "s", "t", "r", "u", "c", "t", "o", "r">>
    THEN ObjectConstructor
  ELSE IF key = <<"_", "_", "p", "r", "o", "t", "o", "_", "_">>
    THEN ObjectPrototype
  ELSE Undefined

\* Object.keys(SOURCE_IDS).join(', ')
ValidSources ==
  "atv, dtv, dvbs, dvbc, dvbt, dvbt2, vga, hdmi1, hdmi2, hdmi3, hdmi4, "
    \o "hdmi5, av1, av2, usb1, usb2"

\* an exception with its message
Error(class, message) == [thrown |-> class, message |-> message]

\* err.message
MessageOf(err) ==
  IF "message" \in DOMAIN err THEN err.message
  ELSE "Cannot read properties of undefined (reading 'toString')"

\* null or undefined where a string, an object or a promise is expected
NoValue == [null |-> TRUE]

\* a string value, where null or undefined is possible too
String(chars) == [chars |-> chars]

\* COMMAND_MAP.set.source.builder: the HEX command, or what it throws
setSourceBuilder(value) ==
  IF value = NoValue
    THEN Error("TypeError",
               "Cannot read properties of undefined (reading 'toLowerCase')")
  ELSE
    LET sourceId == SourceIdOf(toLowerCase(value.chars))
    IN  IF sourceId = Undefined
          THEN Error("Error", "Invalid source: " \o StringOf(value.chars)
                                \o ". Valid sources: " \o ValidSources)
          ELSE [hexCommand |-> buildSetSourceCommand(sourceId)]

\* builder is the request id of a query, or SET_SOURCE for set.source;
\* parser is the name of the decoder
COMMAND_MAP ==
  [get  |-> [checksum  |-> [builder |-> GET_CHECKSUM, parser |-> "checksum"],
             ip        |-> [builder |-> GET_IP_INFO, parser |-> "ip"],
             mac       |-> [builder |-> GET_MAC_ADDR, parser |-> "mac"],
             source    |-> [builder |-> GET_SOURCE, parser |-> "source"],
             wifi      |-> [builder |-> GET_WIFI_STATUS, parser |-> "wifi"],
             bluetooth |-> [builder |-> CHECK_BLUETOOTH,
                            parser  |-> "bluetooth"]],
   set  |-> [source    |-> [builder |-> SET_SOURCE, parser |-> "ack"]],
   test |-> [wifi      |-> [builder |-> GET_WIFI_STATUS, parser |-> "wifi"],
             bluetooth |-> [builder |-> CHECK_BLUETOOTH,
                            parser  |-> "bluetooth"]]]

\* COMMAND_MAP[category]?.[action] || null; the category objects inherit
\* "constructor", a truthy value that has neither builder nor parser
getCommandConfig(category, action) ==
  IF category \notin DOMAIN COMMAND_MAP THEN NoValue
  ELSE IF action \in DOMAIN COMMAND_MAP[category]
    THEN COMMAND_MAP[category][action]
  ELSE IF action = "constructor" THEN [inherited |-> "Object"]
  ELSE NoValue

\* value ? config.builder(value) : config.builder()
CallBuilder(config, value) ==
  IF "builder" \notin DOMAIN config
    THEN Error("TypeError", "config.builder is not a function")
  ELSE IF config.builder = SET_SOURCE
    THEN setSourceBuilder(IF value = NoValue \/ value = String(<<>>)
                            THEN NoValue ELSE value)
  ELSE [hexCommand |-> buildCommandHex(config.builder, <<>>)]

\* timeout = 3000
DefaultTimeout == 3000

\* the states of a promise
NotCreated == [state |-> "none"]
Pending == [state |-> "pending"]
Fulfilled(value) == [state |-> "fulfilled", value |-> value]
Rejected(reason) == [state |-> "rejected", reason |-> reason]

\* the bug of a promise that a later resolve or reject settles again
SettleAgain(promise, settled) == settled

\* resolve(...) or reject(...): only a pending promise is settled
Settle(promise, settled) ==
  IF promise.state = "pending" THEN settled ELSE promise

TimeoutReason == "Response timeout (" \o ToString(DefaultTimeout) \o "ms)"

\* buffer.length >= 6 and buffer.length >= buffer[2]
Complete(buffer) == Len(buffer) >= 6 /\ Len(buffer) >= buffer[3]

\* the bug of delivering everything that is buffered
DeliveredWhole(buffer) == buffer

\* this.buffer.slice(0, packetLength)
Delivered(buffer) == Slice(buffer, 0, buffer[3])

\* what executeCommand returns once sendCommand has settled: the decoded
\* result, or the failure result of the catch clause; an error field that
\* would hold undefined is left out
AfterSend(config, promise) ==
  IF promise.state = "rejected"
    THEN [success |-> FALSE, error |-> promise.reason]
  ELSE
    LET result == Decode(config.parser, promise.value, SET_SOURCE)
    IN  IF "thrown" \in DOMAIN result
          THEN [success |-> FALSE, error |-> MessageOf(result)]
        ELSE IF "error" \in DOMAIN result
          THEN [success |-> result.success, data |-> result,
                error |-> result.error]
        ELSE [success |-> result.success, data |-> result]

(***************************************************************************)
(* The inputs the codec is applied to                                      *)
(***************************************************************************)
\* all sequences over S of length at most n
SeqsUpTo(S, n) == UNION {[1..k -> S] : k \in 0..n}

\* bytes summed by calculateChecksum: sums that wrap, and sums of 0 mod 256
SumBytes == {0, 1, 128, 255}

\* payload bytes: status and error codes 0 and 2, and the id of SET_SOURCE
PayloadBytes == {0, 2, SET_SOURCE}

\* a payload of n distinct-looking bytes
Fill(n) == [i \in 1..n |-> (17 * i) % 256]

\* a MAC address, a MAC address one byte short, and the longest payload whose
\* frame length still fits the length byte
SpecialPayloads == {Fill(5), Fill(6), Fill(249)}

Payloads == SeqsUpTo(PayloadBytes, MaxPayloadLen) \cup SpecialPayloads

\* bytes of a packet turned into text: one and two hexadecimal digits, with
\* digits and letters
PacketBytes == {0, 10, 16, 255}

\* packets turned into text: short ones in every combination, every single
\* byte, and a command frame
Packets ==
  SeqsUpTo(PacketBytes, MaxPacketLen) \cup {<<b>> : b \in Byte}
    \cup {buildCommand(SET_SOURCE, <<5>>)}

\* what may stand between two byte pairs of a HEX string
Separators == {<<>>, <<" ">>, <<"\t", " ">>, <<"\n">>}

\* a separator for each of n gaps: every combination for short strings, the
\* same separator everywhere for long ones
Separations(n) ==
  IF n <= MaxPacketLen THEN [1..n -> Separators]
  ELSE {[i \in 1..n |-> sep] : sep \in Separators}

\* the string with its k-th space replaced by seps[k]
RECURSIVE Respaced(_, _)
Respaced(str, seps) ==
  IF Len(str) = 0 THEN <<>>
  ELSE IF Head(str) = " " /\ Len(seps) > 0
    THEN Head(seps) \o Respaced(Tail(str), Tail(seps))
  ELSE <<Head(str)>> \o Respaced(Tail(str), seps)

\* command ids of the built frames that have one byte replaced
CorruptCmdIds == {SET_SOURCE, GET_MAC_ADDR}

\* command ids a device answers with, and a request id it should not
DeviceCmdIds ==
  {ACK, RET_MAC_ADDR, RET_CHECKSUM, RET_SOURCE, RET_IP_INFO,
   RET_WIFI_STATUS, RET_BLUETOOTH_STATUS, SET_SOURCE}

\* response ids whose payload is one byte of code: a source id or a status
CodeCmdIds == {RET_SOURCE, RET_WIFI_STATUS, RET_BLUETOOTH_STATUS}

\* response ids passed to validateResponse
ExpectedIds == {Null, RET_MAC_ADDR, RET_SOURCE}

\* acknowledged command ids passed to parseAckResponse
ExpectedAckIds == {Null, SET_SOURCE}

\* A frame as a device puts it on the line: each header field is right or
\* wrong, the length byte is right or off by lenOff, and the checksum is the
\* right one for the bytes sent or off by sumOff.
DeviceFrame(sync, start, lenOff, type, cmd, pl, sumOff) ==
  LET body == <<(6 + Len(pl) + lenOff) % 256, type, cmd>> \o pl
  IN  <<sync, start>> \o body
        \o <<(calculateChecksum(body) + sumOff) % 256>>

(***************************************************************************)
(* The inputs of the dispatcher                                            *)
(***************************************************************************)
\* the value argument of "set source": names of the table in three letter
\* cases, a name no object has, a name every object inherits, the empty
\* string and no value
SourceValues ==
  { String(<<"h", "d", "m", "i", "1">>),
    String(<<"H", "D", "M", "I", "1">>),
    String(<<"H", "d", "m", "i", "1">>),
    String(<<"u", "s", "b", "2">>),
    String(<<"h", "d", "m", "i", "9">>),
    String(<<"c", "o", "n", "s", "t", "r", "u", "c", "t", "o", "r">>),
    String(<<>>), NoValue }

\* the arguments of executeCommand
Dispatches ==
  [category : {"set"}, action : {"source"}, value : SourceValues]
    \cup [category : {"get"}, action : {"checksum", "source", "constructor"},
          value : {NoValue}]
    \cup [category : {"get", "put"}, action : {"volume"}, value : {NoValue}]

\* the frame a device answers a request with
Reply(parser) ==
  CASE parser = "checksum" -> buildCommand(RET_CHECKSUM, <<18, 52>>)
    [] parser = "source"   -> buildCommand(RET_SOURCE, <<8>>)
    [] parser = "ack"      -> buildCommand(ACK, <<0, SET_SOURCE>>)

\* what the line delivers after a command: nothing, the reply, the start of
\* the reply, the reply and a second frame behind it, a frame whose length
\* byte is less than 6, a frame without payload
Streams(parser) ==
  { <<>>,
    Reply(parser),
    SubSeq(Reply(parser), 1, 4),
    Reply(parser) \o buildCommand(RET_SOURCE, <<9>>),
    <<SYNC_BYTE, START_BYTE, 3, PROTOCOL_TYPE, RET_SOURCE, 8>>,
    buildCommand(RET_SOURCE, <<>>) }

\* portPath, and err.message of a failing open, write and close
PortPath == "/dev/ttyUSB0"
OpenErrorMessage == "Error: No such file or directory, cannot open "
                      \o PortPath
WriteErrorMessage == "Writing to COM port (GetOverlappedResult)"
CloseErrorMessage == "Error closing port"

(***************************************************************************)
(* The cards of the device test page                                       *)
(***************************************************************************)
\* two of the cards, by their id
Cards == {"wifi", "bluetooth"}

\* command of a card: COMMANDS.GET_WIFI_STATUS, COMMANDS.GET_BLUETOOTH_STATUS
CardCommand(card) ==
  IF card = "wifi" THEN buildCommandHex(GET_WIFI_STATUS, <<>>)
  ELSE buildCommandHex(CHECK_BLUETOOTH, <<>>)

\* what the device answers a command frame with: a status frame, the
\* status being Normal for Wi-Fi and Connecting for Bluetooth
DeviceAnswer(frame) ==
  IF frame[5] = GET_WIFI_STATUS THEN buildCommand(RET_WIFI_STATUS, <<0>>)
  ELSE buildCommand(RET_BLUETOOTH_STATUS, <<1>>)

\* setResult('No response within timeout period')
TimeoutResult == [text |-> "No response within timeout period"]

(***************************************************************************)
(* State                                                                   *)
(***************************************************************************)
VARIABLES
  data,      \* the byte sequence the codec is applied to
  origin,    \* where data comes from: "none", "sum", "built", "device",
             \* "code", "ack", "partial", "packet",
             \* "corrupted"
  cmdId,     \* the command id last given to buildCommand
  payload,   \* the payload last given to buildCommand
  op,        \* the function applied last
  decoder,   \* the decoder applied last
  expected,  \* the expected id given to the function applied last
  out        \* what the function applied last returned

\* one invocation of executeCommand and its SerialClient
VARIABLES
  pc,            \* where executeCommand stands: "idle", "connecting",
                 \* "awaiting", "disconnecting", "done"
  args,          \* category, action and value of the invocation
  port,          \* the SerialPort: "none", "opening", "open", "closing",
                 \* "closed", "failed"
  written,       \* the buffers given to port.write, in order
  timer,         \* the timeout of sendCommand is armed
  listening,     \* onData is registered for 'data'
  buffer,        \* this.buffer
  wire,          \* the bytes the line has yet to deliver
  received,      \* the bytes delivered since the command was sent
  writeCallback, \* the callback of port.write has yet to be called
  sendPromise,   \* the promise sendCommand returned
  returnValue,   \* the value of the return statement executeCommand reached
  dispatch       \* the promise executeCommand returned

\* the device test page of the web UI and the server behind its socket
VARIABLES
  isConnected,   \* activePort is open, and the page shows it as connected
  status,        \* status of every TestCommandCard
  result,        \* result of every TestCommandCard
  cleanupRef,    \* the card has its 'serial-data' listener and its timer
  portWrites,    \* the buffers given to activePort.write, in order
  unanswered     \* the commands the device has yet to answer, in order

\* the server process (server/index.js)
VARIABLES
  activePort,    \* the variable activePort: 0 for null, else the number of
                 \* a SerialPort of ports
  ports,         \* the SerialPort objects created, in order; of each its
                 \* state ("opening", "open", "closing", "closed",
                 \* "failed"), the callback its close() was called with
                 \* and the port that was open when it was created
  serverWrites,  \* what became of every 'send-data' request, in order
  exited         \* process.exit was called

codecVars == <<data, origin, cmdId, payload, op, decoder, expected, out>>

cliVars == <<pc, args, port, written, timer, listening, buffer, wire,
             received, writeCallback, sendPromise, returnValue, dispatch>>

webVars == <<isConnected, status, result, cleanupRef, portWrites,
             unanswered>>

serverVars == <<activePort, ports, serverWrites, exited>>

vars == <<codecVars, cliVars, webVars, serverVars>>

Init ==
  /\ data = <<>>
  /\ origin = "none"
  /\ cmdId = Null
  /\ payload = <<>>
  /\ op = "none"
  /\ decoder = "none"
  /\ expected = Null
  /\ out = Null
  /\ pc = "idle"
  /\ args = NoValue
  /\ port = "none"
  /\ written = <<>>
  /\ timer = FALSE
  /\ listening = FALSE
  /\ buffer = <<>>
  /\ wire = <<>>
  /\ received = <<>>
  /\ writeCallback = FALSE
  /\ sendPromise = NotCreated
  /\ returnValue = NoValue
  /\ dispatch = NotCreated
  /\ isConnected = FALSE
  /\ status = [c \in Cards |-> "idle"]
  /\ result = [c \in Cards |-> NoValue]
  /\ cleanupRef = [c \in Cards |-> FALSE]
  /\ portWrites = <<>>
  /\ unanswered = <<>>
  /\ activePort = 0
  /\ ports = <<>>
  /\ serverWrites = <<>>
  /\ exited = FALSE

\* calculateChecksum(b)
Checksum ==
  /\ origin = "none"
  /\ \E b \in SeqsUpTo(SumBytes, MaxSumLen) :
       /\ data' = b
       /\ origin' = "sum"
       /\ op' = "calculateChecksum"
       /\ out' = calculateChecksum(b)
       /\ UNCHANGED <<cmdId, payload, decoder, expected>>
       /\ UNCHANGED <<cliVars, webVars, serverVars>>

\* buildCommand(c, p)
Build ==
  /\ origin = "none"
  /\ \E c \in Byte, p \in Payloads :
       /\ cmdId' = c
       /\ payload' = p
       /\ data' = buildCommand(c, p)
       /\ origin' = "built"
       /\ op' = "buildCommand"
       /\ out' = data'
       /\ UNCHANGED <<decoder, expected>>
       /\ UNCHANGED <<cliVars, webVars, serverVars>>

\* one byte of a built frame is replaced by another value on the line
Corrupt ==
  /\ origin = "built"
  /\ op = "buildCommand"
  /\ cmdId \in CorruptCmdIds
  /\ Len(payload) <= MaxCorruptLen
  /\ \E i \in 1..Len(data), v \in Byte :
       /\ v # data[i]
       /\ data' = [data EXCEPT ![i] = v]
       /\ origin' = "corrupted"
       /\ op' = "none"
       /\ out' = Null
       /\ UNCHANGED <<cmdId, payload, decoder, expected>>
       /\ UNCHANGED <<cliVars, webVars, serverVars>>

\* packetToHex(p)
ToHex ==
  /\ origin = "none"
  /\ \E p \in Packets :
       /\ data' = p
       /\ origin' = "packet"
       /\ op' = "packetToHex"
       /\ out' = packetToHex(p)
       /\ UNCHANGED <<cmdId, payload, decoder, expected>>
       /\ UNCHANGED <<cliVars, webVars, serverVars>>

\* the whitespace between the byte pairs of the HEX string is changed
Respace ==
  /\ origin = "packet"
  /\ op = "packetToHex"
  /\ Len(data) > 1
  /\ \E seps \in Separations(Max(Len(data) - 1, 0)) :
       /\ op' = "respace"
       /\ out' = Respaced(out, seps)
       /\ UNCHANGED <<data, origin, cmdId, payload, decoder, expected>>
       /\ UNCHANGED <<cliVars, webVars, serverVars>>

\* hexToPacket(hexStr)
FromHex ==
  /\ origin = "packet"
  /\ op \in {"packetToHex", "respace"}
  /\ op' = "hexToPacket"
  /\ out' = hexToPacket(out)
  /\ UNCHANGED <<data, origin, cmdId, payload, decoder, expected>>
  /\ UNCHANGED <<cliVars, webVars, serverVars>>

\* a frame arrives from the device
Receive ==
  /\ origin = "none"
  /\ \E sync \in {SYNC_BYTE, 254}, start \in {START_BYTE, 50},
        lenOff \in {0, 1}, type \in {PROTOCOL_TYPE, 4},
        cmd \in DeviceCmdIds, pl \in Payloads, sumOff \in {0, 1} :
       /\ \/ Len(pl) <= MaxDamagedLen
          \/ /\ sync = SYNC_BYTE /\ start = START_BYTE /\ type = PROTOCOL_TYPE
             /\ lenOff = 0 /\ sumOff = 0
       /\ data' = DeviceFrame(sync, start, lenOff, type, cmd, pl, sumOff)
       /\ origin' = "device"
       /\ op' = "none"
       /\ out' = Null
       /\ UNCHANGED <<cmdId, payload, decoder, expected>>
       /\ UNCHANGED <<cliVars, webVars, serverVars>>

\* a well-formed frame with a one-byte payload arrives, for every byte
ReceiveCode ==
  /\ origin = "none"
  /\ \E cmd \in CodeCmdIds, code \in Byte :
       /\ data' = DeviceFrame(SYNC_BYTE, START_BYTE, 0, PROTOCOL_TYPE,
                              cmd, <<code>>, 0)
       /\ origin' = "code"
       /\ op' = "none"
       /\ out' = Null
       /\ UNCHANGED <<cmdId, payload, decoder, expected>>
       /\ UNCHANGED <<cliVars, webVars, serverVars>>

\* an acknowledgement of a "set source" command with error code e
ReceiveAck ==
  /\ origin = "none"
  /\ \E e \in Byte :
       /\ data' = DeviceFrame(SYNC_BYTE, START_BYTE, 0, PROTOCOL_TYPE,
                              ACK, <<e, SET_SOURCE>>, 0)
       /\ origin' = "ack"
       /\ op' = "none"
       /\ out' = Null
       /\ UNCHANGED <<cmdId, payload, decoder, expected>>
       /\ UNCHANGED <<cliVars, webVars, serverVars>>

\* only the first k < 6 bytes of a frame arrive
ReceivePart ==
  /\ origin = "device"
  /\ op = "none"
  /\ \E k \in 0..5 :
       /\ data' = Slice(data, 0, k)
       /\ origin' = "partial"
       /\ op' = "none"
       /\ out' = Null
       /\ UNCHANGED <<cmdId, payload, decoder, expected>>
       /\ UNCHANGED <<cliVars, webVars, serverVars>>

\* validateResponse(data, e)
Validate ==
  \E e \in ExpectedIds :
    /\ origin \in {"built", "device", "partial", "ack", "corrupted"}
    /\ op \in {"none", "buildCommand"}
    /\ origin = "corrupted" => e = Null
    /\ expected' = e
    /\ op' = "validateResponse"
    /\ out' = validateResponse(data, e)
    /\ UNCHANGED <<data, origin, cmdId, payload, decoder>>
    /\ UNCHANGED <<cliVars, webVars, serverVars>>

\* parse<X>Response(data), and parseAckResponse(data, e)
Parse ==
  \E d \in Decoders, e \in ExpectedAckIds :
    /\ origin \in {"device", "partial", "code", "ack"}
    /\ op = "none"
    /\ d # "ack" => e = Null
    /\ decoder' = d
    /\ expected' = e
    /\ op' = "parse"
    /\ out' = Decode(d, data, e)
    /\ UNCHANGED <<data, origin, cmdId, payload>>
    /\ UNCHANGED <<cliVars, webVars, serverVars>>

\* a parser of the web UI is applied to the bytes of a serial-data event
WebParse ==
  \E d \in WebDecoders :
    /\ origin \in {"device", "partial", "code", "ack"}
    /\ op = "none"
    /\ decoder' = d
    /\ expected' = Null
    /\ op' = "webParse"
    /\ out' = WebDecode(d, data)
    /\ UNCHANGED <<data, origin, cmdId, payload>>
    /\ UNCHANGED <<cliVars, webVars, serverVars>>

Next ==
  \/ Checksum \/ Build \/ Corrupt \/ ToHex \/ Respace \/ FromHex
  \/ Receive \/ ReceiveCode \/ ReceiveAck \/ ReceivePart
  \/ Validate \/ Parse \/ WebParse

Spec == Init /\ [][Next]_vars

(***************************************************************************)
(* executeCommand (cli/commands.js) and SerialClient (cli/serialClient.js) *)
(*                                                                         *)
(* A callback is one step.  The code that awaits sendCommand is woken by   *)
(* the settling of its promise and runs before any other callback: while   *)
(* it is due, Resume is the only step there is.                            *)
(***************************************************************************)
\* executeCommand up to "await client.connect()"
ExecuteCommand ==
  \E a \in Dispatches :
    /\ pc = "idle"
    /\ args' = a
    /\ IF getCommandConfig(a.category, a.action) = NoValue
         THEN /\ dispatch' = Fulfilled(
                     [success |-> FALSE,
                      error   |-> "Unknown command: " \o a.category
                                    \o " " \o a.action])
              /\ pc' = "done"
              /\ port' = port
         ELSE /\ dispatch' = Pending
              /\ pc' = "connecting"
              /\ port' = "opening"
    /\ UNCHANGED <<written, timer, listening, buffer, wire, received,
                   writeCallback, sendPromise, returnValue>>
    /\ UNCHANGED <<codecVars, webVars, serverVars>>

\* the open callback with an error: connect rejects, the catch clause makes
\* the failure result, and disconnect finds the port not open
OpenFailed ==
  /\ pc = "connecting"
  /\ port' = "failed"
  /\ returnValue' = [success |-> FALSE,
                     error   |-> "Failed to open port " \o PortPath \o ": "
                                   \o OpenErrorMessage]
  /\ dispatch' = Fulfilled(returnValue')
  /\ pc' = "done"
  /\ UNCHANGED <<args, written, timer, listening, buffer, wire, received,
                 writeCallback, sendPromise>>
  /\ UNCHANGED <<codecVars, webVars, serverVars>>

\* the open callback without an error: connect resolves, the command is
\* built, and sendCommand runs up to port.write; a builder that throws
\* leads through the catch clause to disconnect
Opened ==
  LET config == getCommandConfig(args.category, args.action)
      built  == CallBuilder(config, args.value)
  IN  /\ pc = "connecting"
      /\ IF "thrown" \in DOMAIN built
           THEN /\ returnValue' = [success |-> FALSE,
                                   error   |-> MessageOf(built)]
                /\ pc' = "disconnecting"
                /\ port' = "closing"
                /\ UNCHANGED <<written, timer, listening, buffer, wire,
                               writeCallback, sendPromise>>
           ELSE /\ written' = Append(written,
                       BufferFromHex(RemoveWhitespace(built.hexCommand)))
                /\ timer' = TRUE
                /\ buffer' = <<>>
                /\ listening' = TRUE
                /\ writeCallback' = TRUE
                /\ sendPromise' = Pending
                /\ wire' \in Streams(config.parser)
                /\ pc' = "awaiting"
                /\ port' = "open"
                /\ UNCHANGED returnValue
      /\ UNCHANGED <<args, received, dispatch>>
      /\ UNCHANGED <<codecVars, webVars, serverVars>>

\* sendCommand has settled and "await client.sendCommand" has yet to go on
ResumeDue == pc = "awaiting" /\ sendPromise.state # "pending"

\* executeCommand after "await client.sendCommand": it decodes or catches,
\* and calls port.close in disconnect
Resume ==
  /\ ResumeDue
  /\ returnValue' =
       AfterSend(getCommandConfig(args.category, args.action), sendPromise)
  /\ pc' = "disconnecting"
  /\ port' = "closing"
  /\ UNCHANGED <<args, written, timer, listening, buffer, wire, received,
                 writeCallback, sendPromise, dispatch>>
  /\ UNCHANGED <<codecVars, webVars, serverVars>>

\* a 'data' event with the next k bytes of the line: onData
Data ==
  \E k \in 1..Len(wire) :
    LET chunk  == SubSeq(wire, 1, k)
        joined == buffer \o chunk
    IN  /\ port \in {"open", "closing"}
        /\ ~ResumeDue
        /\ wire' = SubSeq(wire, k + 1, Len(wire))
        /\ received' = received \o chunk
        /\ IF listening
             THEN /\ buffer' = joined
                  /\ IF Complete(joined)
                       THEN /\ timer' = FALSE
                            /\ listening' = FALSE
                            /\ sendPromise' =
                                 Settle(sendPromise,
                                        Fulfilled(Delivered(joined)))
                       ELSE UNCHANGED <<timer, listening, sendPromise>>
             ELSE UNCHANGED <<buffer, timer, listening, sendPromise>>
        /\ UNCHANGED <<pc, args, port, written, writeCallback, returnValue,
                       dispatch>>
        /\ UNCHANGED <<codecVars, webVars, serverVars>>

\* the timer of sendCommand fires
Timeout ==
  /\ timer
  /\ ~ResumeDue
  /\ timer' = FALSE
  /\ sendPromise' = Settle(sendPromise, Rejected(TimeoutReason))
  /\ UNCHANGED <<pc, args, port, written, listening, buffer, wire, received,
                 writeCallback, returnValue, dispatch>>
  /\ UNCHANGED <<codecVars, webVars, serverVars>>

\* the callback of port.write, with or without an error
WriteCallback ==
  \E err \in BOOLEAN :
    /\ writeCallback
    /\ ~ResumeDue
    /\ writeCallback' = FALSE
    /\ IF err
         THEN /\ timer' = FALSE
              /\ listening' = FALSE
              /\ sendPromise' =
                   Settle(sendPromise,
                          Rejected("Failed to send command: "
                                     \o WriteErrorMessage))
         ELSE UNCHANGED <<timer, listening, sendPromise>>
    /\ UNCHANGED <<pc, args, port, written, buffer, wire, received,
                   returnValue, dispatch>>
    /\ UNCHANGED <<codecVars, webVars, serverVars>>

\* the callback of port.close in disconnect: with an error disconnect
\* rejects inside the finally clause, and so does executeCommand
Closed ==
  \E err \in BOOLEAN :
    /\ pc = "disconnecting"
    /\ pc' = "done"
    /\ IF err
         THEN /\ dispatch' = Settle(dispatch, Rejected(CloseErrorMessage))
              /\ port' = "open"
         ELSE /\ dispatch' = Settle(dispatch, Fulfilled(returnValue))
              /\ port' = "closed"
    /\ UNCHANGED <<args, written, timer, listening, buffer, wire, received,
                   writeCallback, sendPromise, returnValue>>
    /\ UNCHANGED <<codecVars, webVars, serverVars>>

NextCli ==
  \/ ExecuteCommand \/ OpenFailed \/ Opened
  \/ Data \/ Timeout \/ WriteCallback \/ Resume \/ Closed

SpecCli == Init /\ [][NextCli]_vars

\* a timer that is armed fires, and a callback that is due is called
FairSpecCli ==
  /\ SpecCli
  /\ WF_vars(Timeout)
  /\ WF_vars(OpenFailed \/ Opened)
  /\ WF_vars(Resume)
  /\ WF_vars(Closed)

(***************************************************************************)
(* TestCommandCard (client) and the socket handlers of the server          *)
(***************************************************************************)
\* toggleConnection while disconnected: 'open-port', the port opens
OpenPort ==
  /\ ~isConnected
  /\ isConnected' = TRUE
  /\ UNCHANGED <<status, result, cleanupRef, portWrites, unanswered>>
  /\ UNCHANGED <<codecVars, cliVars, serverVars>>

\* toggleConnection while connected: 'close-port'; a closed port delivers
\* no answer any more
ClosePort ==
  /\ isConnected
  /\ isConnected' = FALSE
  /\ unanswered' = <<>>
  /\ UNCHANGED <<status, result, cleanupRef, portWrites>>
  /\ UNCHANGED <<codecVars, cliVars, serverVars>>

\* the button of a card, disabled while the card itself is pending:
\* executeCommand of the card, and the 'send-data' handler of the server
Execute ==
  \E c \in Cards :
    /\ isConnected
    /\ status[c] # "pending"
    /\ Len(portWrites) < MaxSends
    /\ status' = [status EXCEPT ![c] = "pending"]
    /\ result' = [result EXCEPT ![c] = NoValue]
    /\ cleanupRef' = [cleanupRef EXCEPT ![c] = TRUE]
    /\ LET dataToWrite == BufferFromHex(RemoveWhitespace(CardCommand(c)))
       IN  /\ portWrites' = Append(portWrites, dataToWrite)
           /\ unanswered' = Append(unanswered, dataToWrite)
    /\ UNCHANGED isConnected
    /\ UNCHANGED <<codecVars, cliVars, serverVars>>

\* the device answers its oldest command; the server emits the bytes as
\* 'serial-data', and handleResponse of every listening card takes them
SerialData ==
  /\ isConnected
  /\ unanswered # <<>>
  /\ LET answer == DeviceAnswer(Head(unanswered))
     IN  /\ status' = [c \in Cards |->
                         IF cleanupRef[c] THEN "success" ELSE status[c]]
         /\ result' = [c \in Cards |->
                         IF cleanupRef[c] THEN WebDecode(c, answer)
                         ELSE result[c]]
  /\ cleanupRef' = [c \in Cards |-> FALSE]
  /\ unanswered' = Tail(unanswered)
  /\ UNCHANGED <<isConnected, portWrites>>
  /\ UNCHANGED <<codecVars, cliVars, serverVars>>

\* the timer of a card fires
CardTimeout ==
  \E c \in Cards :
    /\ cleanupRef[c]
    /\ status' = [status EXCEPT ![c] = "timeout"]
    /\ result' = [result EXCEPT ![c] = TimeoutResult]
    /\ cleanupRef' = [cleanupRef EXCEPT ![c] = FALSE]
    /\ UNCHANGED <<isConnected, portWrites, unanswered>>
    /\ UNCHANGED <<codecVars, cliVars, serverVars>>

NextWeb == OpenPort \/ ClosePort \/ Execute \/ SerialData \/ CardTimeout

SpecWeb == Init /\ [][NextWeb]_vars

(***************************************************************************)
(* The server process: socket handlers, port events and signals            *)
(***************************************************************************)
\* activePort && activePort.isOpen: isOpen is false from the moment close()
\* is called and until the open callback
ActiveIsOpen == activePort # 0 /\ ports[activePort].state = "open"

\* activePort.close(callback) on the open active port
CloseActive(callback) ==
  [ports EXCEPT ![activePort] =
     [@ EXCEPT !.state = "closing", !.closeCallback = callback]]

\* the 'open-port' handler: the open active port is told to close, and a new
\* SerialPort takes its place and is told to open; with a config the
\* constructor throws on, activePort keeps its value
SocketOpenPort ==
  \E valid \in BOOLEAN :
    /\ ~exited
    /\ Len(ports) < MaxPorts
    /\ LET closed == IF ActiveIsOpen THEN CloseActive("none") ELSE ports
           new    == [state         |-> "opening",
                      closeCallback |-> "none",
                      replaced      |-> IF ActiveIsOpen THEN activePort
                                        ELSE 0]
       IN  IF valid
             THEN /\ ports' = Append(closed, new)
                  /\ activePort' = Len(ports) + 1
             ELSE /\ ports' = closed
                  /\ UNCHANGED activePort
    /\ UNCHANGED <<serverWrites, exited>>
    /\ UNCHANGED <<codecVars, cliVars, webVars>>

\* the callback of open()
PortOpened ==
  \E id \in 1..Len(ports), err \in BOOLEAN :
    /\ ~exited
    /\ ports[id].state = "opening"
    /\ ports' = [ports EXCEPT ![id].state =
                   IF err THEN "failed" ELSE "open"]
    /\ UNCHANGED <<activePort, serverWrites, exited>>
    /\ UNCHANGED <<codecVars, cliVars, webVars>>

\* a close() comes to its end: without an error the port emits 'close',
\* whose handler assigns null to activePort, and then the callback given to
\* close() is called; with an error the port stays open and only the
\* callback is called
PortClosed ==
  \E id \in 1..Len(ports), err \in BOOLEAN :
    /\ ~exited
    /\ ports[id].state = "closing"
    /\ ports' = [ports EXCEPT ![id] =
                   [@ EXCEPT !.state = IF err THEN "open" ELSE "closed",
                             !.closeCallback = "none"]]
    /\ activePort' = IF err THEN activePort ELSE 0
    /\ exited' = (ports[id].closeCallback = "exit")
    /\ UNCHANGED serverWrites
    /\ UNCHANGED <<codecVars, cliVars, webVars>>

\* the device is unplugged: the open port emits 'close'
PortLost ==
  \E id \in 1..Len(ports) :
    /\ ~exited
    /\ ports[id].state = "open"
    /\ ports' = [ports EXCEPT ![id].state = "closed"]
    /\ activePort' = 0
    /\ UNCHANGED <<serverWrites, exited>>
    /\ UNCHANGED <<codecVars, cliVars, webVars>>

\* the 'close-port' handler
SocketClosePort ==
  /\ ~exited
  /\ ActiveIsOpen
  /\ ports' = CloseActive("report")
  /\ UNCHANGED <<activePort, serverWrites, exited>>
  /\ UNCHANGED <<codecVars, cliVars, webVars>>

\* the 'send-data' handler: the data is written to the open active port, or
\* "Port not open" is emitted (to = 0); with it goes down which port was
\* created last and whether that one is open
SocketSendData ==
  /\ ~exited
  /\ Len(serverWrites) < MaxRequests
  /\ serverWrites' =
       Append(serverWrites,
              [to       |-> IF ActiveIsOpen THEN activePort ELSE 0,
               last     |-> Len(ports),
               lastOpen |-> ports # <<>> /\ ports[Len(ports)].state = "open"])
  /\ UNCHANGED <<activePort, ports, exited>>
  /\ UNCHANGED <<codecVars, cliVars, webVars>>

\* SIGINT or SIGTERM: cleanup
Cleanup ==
  /\ ~exited
  /\ IF ActiveIsOpen
       THEN /\ ports' = CloseActive("exit")
            /\ UNCHANGED exited
       ELSE /\ exited' = TRUE
            /\ UNCHANGED ports
  /\ UNCHANGED <<activePort, serverWrites>>
  /\ UNCHANGED <<codecVars, cliVars, webVars>>

NextServer ==
  \/ SocketOpenPort \/ PortOpened \/ PortClosed \/ PortLost
  \/ SocketClosePort \/ SocketSendData \/ Cleanup

SpecServer == Init /\ [][NextServer]_vars

(***************************************************************************)
(* What the claims speak of, stated on the bytes themselves                *)
(***************************************************************************)
\* the arithmetic sum of a byte sequence
RECURSIVE Total(_)
Total(s) ==
  IF Len(s) = 0 THEN 0
  ELSE IF Len(s) = 1 THEN s[1]
  ELSE LET h == Len(s) \div 2
       IN  Total(SubSeq(s, 1, h)) + Total(SubSeq(s, h + 1, Len(s)))

\* Check k of the validation order is violated by the byte sequence b:
\* 1 too short, 2 sync byte, 3 start byte, 4 length byte, 5 checksum,
\* 6 protocol type, 7 response id (against the expected id e).
Violates(k, b, e) ==
  CASE k = 1 -> Len(b) < 6
    [] k = 2 -> Len(b) >= 1 /\ b[1] # 255
    [] k = 3 -> Len(b) >= 2 /\ b[2] # 51
    [] k = 4 -> Len(b) >= 3 /\ b[3] # Len(b)
    [] k = 5 -> Len(b) >= 3 /\ (Total(SubSeq(b, 3, Len(b)))) % 256 # 0
    [] k = 6 -> Len(b) >= 4 /\ b[4] # 3
    [] k = 7 -> Len(b) >= 5 /\ e # Null /\ b[5] # 1 /\ b[5] # e

ViolatedChecks(b, e) == {k \in 1..7 : Violates(k, b, e)}

FirstViolated(b, e) ==
  CHOOSE k \in ViolatedChecks(b, e) : \A j \in ViolatedChecks(b, e) : k <= j

\* the checksum byte that makes bytes 3..n-1 and itself sum to 0 modulo 256
RightSum(b) == (256 - (Total(SubSeq(b, 3, Len(b) - 1)) % 256)) % 256

\* the message of check k for the byte sequence b
Message(k, b, e) ==
  CASE k = 1 -> "Response too short"
    [] k = 2 -> "Invalid sync byte: 0x" \o ToString16(b[1])
    [] k = 3 -> "Invalid start byte: 0x" \o ToString16(b[2])
    [] k = 4 -> "Length mismatch: expected " \o ToString(b[3])
                  \o ", got " \o ToString(Len(b))
    [] k = 5 -> "Checksum mismatch: expected 0x" \o ToString16(RightSum(b))
                  \o ", got 0x" \o ToString16(b[Len(b)])
    [] k = 6 -> "Invalid protocol type: 0x" \o ToString16(b[4])
    [] k = 7 -> "Unexpected response ID: expected 0x" \o ToString16(e)
                  \o ", got 0x" \o ToString16(b[5])

\* b passes the checks on the frame itself (1 to 6)
WellFormed(b) == \A k \in 1..6 : ~Violates(k, b, Null)

\* b is a well-formed ACK frame
IsAckFrame(b) == WellFormed(b) /\ b[5] = 1

\* the function applied last returned a record with a success field
Returned == "success" \in DOMAIN out

(***************************************************************************)
(* Claims                                                                  *)
(***************************************************************************)

\* C1: for every byte sequence b, the empty one included, calculateChecksum(b)
\* is a byte c such that (sum of the bytes of b + c) mod 256 = 0, that is
\* c = (0x100 - (sum(b) mod 256)) mod 256.
C1_ChecksumLaw ==
  op = "calculateChecksum" =>
    /\ out \in Byte
    /\ (Total(data) + out) % 256 = 0
    /\ out = (256 - (Total(data) % 256)) % 256

\* a non-empty sequence whose sum is 0 modulo 256 has checksum 0
C1_Witness ==
  /\ op = "calculateChecksum"
  /\ Len(data) = 2
  /\ Total(data) = 256
  /\ out = 0

\* C2: round trip. For every command id in 0..255 and every payload of 0..249
\* bytes, validateResponse(buildCommand(cmd, payload), null) is valid, with
\* responseCmdId = cmd and the payload that was built.
C2_RoundTrip ==
  (op = "validateResponse" /\ origin = "built" /\ expected = Null) =>
    /\ out.valid
    /\ out.responseCmdId = cmdId
    /\ out.payload = payload

\* the longest payload with the largest command id comes back
C2_Witness ==
  /\ op = "validateResponse" /\ origin = "built" /\ expected = Null
  /\ cmdId = 255
  /\ Len(payload) = 249
  /\ out.valid
  /\ out.payload = payload

\* C3: buildCommand returns exactly [0xFF, 0x33, 6+len(payload), 0x03, cmdId,
\* ...payload, checksum], the last byte being the checksum of the bytes from
\* the length byte through the last payload byte; buildCommand(0x12, []) is
\* [0xFF, 0x33, 0x06, 0x03, 0x12, 0xE5].
C3_FrameLayout ==
  op = "buildCommand" =>
    LET covered == <<6 + Len(payload), 3, cmdId>> \o payload
    IN  /\ out = <<255, 51>> \o covered
                   \o <<(256 - (Total(covered) % 256)) % 256>>
        /\ (cmdId = 18 /\ payload = <<>>) => out = <<255, 51, 6, 3, 18, 229>>

\* the fixture of the specification is built
C3_Witness ==
  /\ op = "buildCommand"
  /\ cmdId = 18
  /\ payload = <<>>
  /\ out = <<255, 51, 6, 3, 18, 229>>

\* C4: validateResponse reports the first failing check in the order too
\* short, sync byte, start byte, length mismatch, checksum mismatch, protocol
\* type, unexpected response id; a byte sequence that violates several checks
\* gets the error of the earliest one, and one that violates none is valid.
C4_FirstFailureWins ==
  op = "validateResponse" =>
    IF ViolatedChecks(data, expected) = {}
      THEN out.valid
      ELSE out = [valid |-> FALSE,
                  error |-> Message(FirstViolated(data, expected),
                                    data, expected)]

\* a frame with a wrong protocol type and a wrong checksum reports the
\* checksum
C4_Witness ==
  /\ op = "validateResponse"
  /\ {5, 6} \subseteq ViolatedChecks(data, expected)
  /\ FirstViolated(data, expected) = 5
  /\ ~out.valid
  /\ out.error = Message(5, data, expected)

\* C5: ACK override. A byte sequence that passes the checks on the frame
\* fails with "unexpected response id" if and only if an id was expected and
\* byte[4] is neither 0x01 nor that id; it is valid otherwise. An ACK frame is
\* never rejected for its response id.
C5_AckOverride ==
  (op = "validateResponse" /\ WellFormed(data)) =>
    LET mismatch == expected # Null /\ data[5] # 1 /\ data[5] # expected
    IN  /\ mismatch => out = [valid |-> FALSE,
                              error |-> Message(7, data, expected)]
        /\ ~mismatch => out.valid
        /\ data[5] = 1 => out.valid /\ out.isAck

\* an ACK frame is accepted where RET_SOURCE was expected
C5_Witness ==
  /\ op = "validateResponse"
  /\ IsAckFrame(data)
  /\ expected = 21
  /\ out.valid
  /\ out.isAck

\* C6: a typed decoder given a well-formed ACK frame with ackError = 0 (such
\* as parseSourceResponse, which expects 0x15, given an ACK for 0x16) returns
\* success and does not fail with an "unexpected response id" error.
C6_AckAcceptedByTypedDecoders ==
  (op = "parse" /\ decoder \in TypedDecoders
     /\ IsAckFrame(data) /\ data[6] = 0) =>
    /\ Returned
    /\ out.success
    /\ "error" \notin DOMAIN out

\* parseSourceResponse is given the ACK of SET_SOURCE, error code 0
C6_Witness ==
  /\ op = "parse"
  /\ decoder = "source"
  /\ data = <<255, 51, 8, 3, 1, 0, 22, 222>>
  /\ out.success

\* C7: for every decoder and every valid ACK frame with a nonzero ackError,
\* the decoder returns success = false with the error carrying the device
\* error code, whatever response or acknowledged command id was expected.
C7_DeviceErrorAlwaysReported ==
  (op = "parse" /\ IsAckFrame(data) /\ data[6] # 0) =>
    out = [success |-> FALSE,
           error   |-> "Device returned error code: " \o ToString(data[6])]

\* C8: for every decoder and every byte sequence validateResponse rejects,
\* the decoder returns {success: false, error} with exactly the error string
\* of validateResponse.
C8_ValidationErrorVerbatim ==
  op = "parse" =>
    LET validation == validateResponse(data, ExpectedResponseId(decoder))
    IN  ~validation.valid =>
          out = [success |-> FALSE, error |-> validation.error]

\* a decoder relays a checksum mismatch
C8_Witness ==
  /\ op = "parse"
  /\ ViolatedChecks(data, ExpectedResponseId(decoder)) # {}
  /\ FirstViolated(data, ExpectedResponseId(decoder)) = 5
  /\ Returned
  /\ ~out.success
  /\ out.error = Message(5, data, Null)

\* C9: the MAC decoder succeeds only on a valid RET_MAC_ADDR frame whose
\* payload is exactly 6 bytes; for a valid frame whose payload length is not 6
\* it returns success = false.
C9_MacNeedsSixBytes ==
  (op = "parse" /\ decoder = "mac") =>
    /\ (Returned /\ out.success) =>
         (WellFormed(data) /\ data[5] = 13 /\ Len(data) = 12)
    /\ (WellFormed(data) /\ Len(data) # 12) => (Returned /\ ~out.success)

\* C10: every decoder is total: for every byte sequence, valid frames with an
\* empty payload and 6- or 7-byte ACK frames included, it returns a result
\* record and never throws.
C10_DecodersTotal ==
  op = "parse" => Returned /\ out.success \in BOOLEAN

\* b is a well-formed frame with command id cmd and at least one payload byte
CodeFrame(b, cmd) == WellFormed(b) /\ b[5] = cmd /\ Len(b) >= 7

\* C11: for every valid RET_SOURCE frame whose first payload byte is s,
\* parseSourceResponse succeeds with sourceId = s and with the name of the
\* table for s in 0..26, "Unknown(0x<hex of s>)" otherwise (99 gives
\* "Unknown(0x63)"); it never reports an error for such a frame.
C11_SourceLookup ==
  (op = "parse" /\ decoder = "source" /\ CodeFrame(data, RET_SOURCE)) =>
    LET s == data[6]
    IN  /\ Returned /\ out.success = TRUE
        /\ out.sourceId = s
        /\ s <= 26 => out.source = SOURCE_NAMES[s + 1]
        /\ s > 26 => out.source = "Unknown(0x" \o ToString16(s) \o ")"
        /\ s = 8 => out.source = "HDMI1"
        /\ s = 26 => out.source = "USB4"
        /\ s = 27 => out.source = "Unknown(0x1b)"
        /\ s = 99 => out.source = "Unknown(0x63)"
        /\ s = 255 => out.source = "Unknown(0xff)"

\* parseSourceResponse has decoded a RET_SOURCE frame of source id 99
C11_Witness ==
  /\ op = "parse" /\ decoder = "source" /\ CodeFrame(data, RET_SOURCE)
  /\ data[6] = 99
  /\ Returned /\ out.source = "Unknown(0x63)"

\* the name a status decoder returned, of the shared codec or of the web UI
ReturnedStatus ==
  IF op = "parse" THEN out.status ELSE out.raw.statusName

\* the status code a status decoder returned
ReturnedStatusCode ==
  IF op = "parse" THEN out.statusCode ELSE out.raw.statusCode

C13_AckDecoder ==
  (op = "parse" /\ decoder = "ack") =>
    LET ackError == At(data, 5)
        ackCmdId == At(data, 6)
    IN  /\ Returned
        /\ out.success = (/\ IsAckFrame(data)
                          /\ ackError = 0
                          /\ expected # Null => ackCmdId = expected)
        /\ (IsAckFrame(data) /\ expected # Null /\ ackCmdId # expected) =>
              out.error = "Unexpected ACK command: expected 0x"
                            \o ToString16(expected) \o ", got 0x"
                            \o OptToString16(ackCmdId)
        /\ (WellFormed(data) /\ data[5] # ACK) =>
              (~out.success /\ out.error = "Expected ACK response")

\* parseAckResponse has accepted the acknowledgement of the expected command
C13_Witness ==
  /\ op = "parse" /\ decoder = "ack" /\ expected = SET_SOURCE
  /\ IsAckFrame(data) /\ Len(data) = 8
  /\ data[6] = 0 /\ data[7] = SET_SOURCE
  /\ Returned /\ out.success = TRUE

\* executeCommand was called for "set source" with a string value
SetSourceOf(names) ==
  /\ pc # "idle"
  /\ args.category = "set" /\ args.action = "source"
  /\ args.value # NoValue
  /\ args.value.chars \in names

\* the port has been opened, so that the dispatch went on to build
PortWasOpened == port \in {"open", "closing", "closed"}

\* "hdmi1" as a user may spell it
Hdmi1Spellings ==
  { <<"h", "d", "m", "i", "1">>, <<"H", "D", "M", "I", "1">>,
    <<"H", "d", "m", "i", "1">> }

\* C14: a dispatch of set-source with a name of the buildable table, in any
\* letter case, writes exactly the frame buildCommand(SET_SOURCE, [id of
\* the name]) to the transport, once the port is open and nothing before;
\* for "hdmi1" that is FF 33 07 03 16 08 D8, payload [8].
C14_SetSourceFrame ==
  /\ SetSourceOf(Hdmi1Spellings) =>
       /\ PortWasOpened =>
            /\ written = <<buildCommand(SET_SOURCE, <<8>>)>>
            /\ written = << <<255, 51, 7, 3, 22, 8, 216>> >>
       /\ ~PortWasOpened => written = <<>>
  /\ SetSourceOf({<<"u", "s", "b", "2">>}) =>
       /\ PortWasOpened => written = <<buildCommand(SET_SOURCE, <<24>>)>>
       /\ ~PortWasOpened => written = <<>>

\* "HDMI1" was dispatched and its frame is on the line
C14_Witness ==
  /\ SetSourceOf({<<"H", "D", "M", "I", "1">>})
  /\ pc = "awaiting"
  /\ written = << <<255, 51, 7, 3, 22, 8, 216>> >>

\* executeCommand was called for an operation the table does not hold
UnknownOperation ==
  /\ pc # "idle"
  /\ \/ args.category = "put"
     \/ args.category = "get" /\ args.action \in {"volume", "constructor"}

\* executeCommand was called for "set source" without a name, with the
\* empty name or with a name that is not in SOURCE_IDS
UnresolvableSource ==
  /\ pc # "idle"
  /\ args.category = "set" /\ args.action = "source"
  /\ \/ args.value = NoValue
     \/ args.value # NoValue
          /\ args.value.chars \in
               { <<>>, <<"h", "d", "m", "i", "9">>,
                 <<"c", "o", "n", "s", "t", "r", "u", "c", "t", "o", "r">> }

\* C15: when set-source is dispatched with a missing, empty or unresolvable
\* source name, or the operation is not in the operation table, nothing is
\* written to the transport and the dispatch returns a failure result.
C15_NothingSentForBadRequest ==
  (UnknownOperation \/ UnresolvableSource) =>
    /\ written = <<>>
    /\ pc = "done" =>
         /\ dispatch.state = "fulfilled"
         /\ dispatch.value.success = FALSE

\* the timeout elapsed before a complete frame was buffered
TimedOut == sendPromise = Rejected(TimeoutReason)

\* C16: if no complete frame has been buffered when the timeout elapses, the
\* dispatch ends with a timeout error that no frame validation produces,
\* returns no decoded value built from the partial bytes, and the command
\* frame was written to the transport exactly once.
C16_TimeoutOutcome ==
  TimedOut =>
    /\ Len(written) = 1
    /\ FrameError(buffer) # TimeoutReason
    /\ ~ResumeDue =>
         returnValue = [success |-> FALSE, error |-> TimeoutReason]
    /\ pc = "done" => dispatch = Fulfilled(returnValue)

\* a promise that is fulfilled or rejected
IsSettled(promise) == promise.state \in {"fulfilled", "rejected"}

\* C17: every dispatch that reaches the send step eventually ends, given
\* that the timer fires and the callbacks are called; sendCommand has then
\* settled in exactly one way (a frame delivered, the timeout, a write
\* error) and executeCommand went on from that one outcome; neither the
\* outcome of sendCommand, nor the value executeCommand took from it, nor
\* the settled dispatch is changed by an event that comes later.
C17_OneTerminalOutcome ==
  /\ (pc = "awaiting") ~> (pc = "done")
  /\ [](pc \in {"disconnecting", "done"} /\ sendPromise # NotCreated =>
         /\ IsSettled(sendPromise)
         /\ returnValue =
              AfterSend(getCommandConfig(args.category, args.action),
                        sendPromise))
  /\ [][IsSettled(sendPromise) => sendPromise' = sendPromise]_vars
  /\ [][returnValue # NoValue => returnValue' = returnValue]_vars
  /\ [][IsSettled(dispatch) => dispatch' = dispatch]_vars

\* a dispatch has ended as timed out although the whole frame arrived after
\* the timeout and the write callback was called
C17_Witness ==
  /\ pc = "done"
  /\ TimedOut
  /\ Complete(buffer) /\ ~writeCallback /\ ~listening
  /\ dispatch = Fulfilled([success |-> FALSE, error |-> TimeoutReason])

\* the bytes received since the command was sent hold a complete frame
ReceivedFrame == Len(received) >= 6 /\ Len(received) >= received[3]

\* C19: however the inbound stream is split into data events, sendCommand
\* resolves once the bytes received since the command was sent number at
\* least 6 and at least the length byte (byte[2]), and it delivers exactly
\* the first byte[2] bytes of them, so the length of the delivered frame
\* equals its length byte; while it is pending no complete frame is there.
C19_ChunkingIndependence ==
  /\ sendPromise.state = "fulfilled" =>
       /\ ReceivedFrame
       /\ sendPromise.value = SubSeq(received, 1, received[3])
       /\ Len(sendPromise.value) = received[3]
  /\ sendPromise.state = "pending" => ~ReceivedFrame

\* two frames arrived and only the first was delivered
C19_Witness ==
  /\ sendPromise.state = "fulfilled"
  /\ Len(sendPromise.value) = 8
  /\ Len(received) = 15

\* C20: executeCommand always resolves to a {success, data?, error?} value
\* and never rejects, whatever fails: opening the port, building the frame,
\* writing, the timeout, decoding, or closing the port in the final
\* disconnect.
C20_AlwaysResolves ==
  /\ dispatch.state # "rejected"
  /\ pc = "done" =>
       /\ dispatch.state = "fulfilled"
       /\ dispatch.value.success \in BOOLEAN
       /\ DOMAIN dispatch.value \subseteq {"success", "data", "error"}

\* the cards whose command was written and is neither answered nor timed out
Outstanding == {c \in Cards : status[c] = "pending"}

\* C18: at most one request is outstanding per transport connection at any
\* time: no second command is written to the serial port while a command
\* sent before is neither answered, timed out nor failed; this for the
\* cards of the web UI, which share one socket and one port.
C18_OneOutstandingRequest == Cardinality(Outstanding) <= 1

(***************************************************************************)
(* Device-reported errors                                                  *)
(***************************************************************************)
\* the frame is an acknowledgement that reports error code e for command c
IsAckOf(frame, e, c) ==
  frame = DeviceFrame(SYNC_BYTE, START_BYTE, 0, PROTOCOL_TYPE, ACK,
                      <<e, c>>, 0)

\* what the web UI shows for an acknowledged error under a given label
LabelledDisplays(label, c) ==
  { "U+2717 ACK Error: " \o label \o " (CMD: 0x" \o ToString16Upper(c) \o ")",
    "U+2717 Failed: " \o label }

\* C21: an ACK whose error code e is nonzero is surfaced as a failure, with
\* the label "Unknown Command" when e = 1, "Parameter Error" when e = 2, and
\* with neither label for any other nonzero e.
C21_ErrorLabels ==
  \A e \in Byte \ {0} :
    (op = "webParse" /\ decoder \in {"ack", "setSource"}
       /\ IsAckOf(data, e, SET_SOURCE)) =>
      /\ out.success = FALSE
      /\ e = 1 => out.display \in LabelledDisplays("Unknown Command", SET_SOURCE)
      /\ e = 2 => out.display \in LabelledDisplays("Parameter Error", SET_SOURCE)
      /\ e > 2 =>
           out.display \notin LabelledDisplays("Unknown Command", SET_SOURCE)
                               \cup LabelledDisplays("Parameter Error", SET_SOURCE)

(***************************************************************************)
(* HEX strings                                                             *)
(***************************************************************************)
\* the two uppercase hexadecimal digits of a byte
TwoDigits(b) == <<UpperHexDigits[(b \div 16) + 1], UpperHexDigits[(b % 16) + 1]>>

\* the characters of str that are not " ", "\t" or "\n"
Printing(str) == SelectSeq(str, LAMBDA c : c # " " /\ c # "\t" /\ c # "\n")

\* C22: hexToPacket(packetToHex(p)) = p for every byte array p; packetToHex
\* emits exactly two uppercase hexadecimal digits per byte; and hexToPacket
\* returns the same bytes whatever whitespace is inserted or removed between
\* the byte pairs.
C22_HexRoundTrip ==
  origin = "packet" =>
    /\ op = "packetToHex" =>
         /\ Len(Printing(out)) = 2 * Len(data)
         /\ \A i \in 1..Len(data) :
              SubSeq(Printing(out), 2 * i - 1, 2 * i) = TwoDigits(data[i])
    /\ op = "respace" => Printing(out) = Printing(packetToHex(data))
    /\ op = "hexToPacket" => out = data

\* bytes with one and with two digits went to text, had the spaces between
\* them taken out, and came back
C22_Witness ==
  /\ origin = "packet"
  /\ op = "hexToPacket"
  /\ data = <<10, 255>>
  /\ out = <<10, 255>>

(***************************************************************************)
(* The server's port                                                       *)
(***************************************************************************)
\* the process holds the serial device of a port
Held(id) == ports[id].state \in {"open", "closing"}

\* C23: the server exits only after the close it requested on a signal has
\* called back, or at once when no port is open: no port is still held open
\* at the moment of exit.
C23_GracefulShutdown ==
  exited => \A id \in 1..Len(ports) : ~Held(id)

\* the port created last replaced an open port and is open itself
Replacement(id) ==
  /\ id = Len(ports)
  /\ ports[id].replaced # 0
  /\ ports[id].state = "open"

\* C27: once a port that was opened while another port was open has opened,
\* it is the active port until the next request, whatever the close event
\* of the old port does, and 'send-data' writes to it.
C27_NewPortStaysActive ==
  /\ \A id \in 1..Len(ports) : Replacement(id) => activePort = id
  /\ \A k \in 1..Len(serverWrites) :
       LET w == serverWrites[k]
       IN  (w.lastOpen /\ ports[w.last].replaced # 0) => w.to = w.last

(***************************************************************************)
(* Typed decoders and acknowledgements                                     *)
(***************************************************************************)
\* C24: whenever a typed decoder returns success, the response id of the
\* frame it decoded is the id that decoder expects; its value is never made
\* from the bytes of an ACK.
C24_ValueFromExpectedFrame ==
  (op = "parse" /\ decoder \in TypedDecoders /\ Returned /\ out.success) =>
    /\ Len(data) >= 6
    /\ data[5] = ExpectedResponseId(decoder)

\* C25: for every valid ACK frame of at least 7 bytes, the ackError and the
\* ackCmdId validateResponse returns are the first and the second byte of the
\* payload it returns; neither is undefined or the checksum byte.
C25_AckFieldsFromPayload ==
  (op = "validateResponse" /\ Len(data) >= 7 /\ out.valid /\ out.isAck) =>
    /\ Len(out.payload) >= 2
    /\ out.ackError = out.payload[1]
    /\ out.ackCmdId = out.payload[2]
    /\ out.ackError # Undefined
    /\ out.ackCmdId # Undefined

(***************************************************************************)
(* Damage on the line                                                      *)
(***************************************************************************)
\* the positions at which the received bytes differ from the frame that
\* buildCommand made of cmdId and payload
Differing ==
  {i \in 1..Len(data) : data[i] # buildCommand(cmdId, payload)[i]}

\* C26: for every frame f that buildCommand makes, every position i and
\* every byte v other than f[i], validateResponse of f with byte i replaced
\* by v, expecting no particular id, returns valid = false.
C26_SingleByteCorruptionDetected ==
  (origin = "corrupted" /\ op = "validateResponse") =>
    /\ Cardinality(Differing) = 1
    /\ expected = Null
    /\ out.valid = FALSE

\* the payload byte of a "set source" frame was replaced, and the frame was
\* rejected for its checksum
C26_Witness ==
  /\ origin = "corrupted"
  /\ op = "validateResponse"
  /\ cmdId = SET_SOURCE
  /\ payload = <<0>>
  /\ data = <<255, 51, 7, 3, 22, 3, 224>>
  /\ out = [valid |-> FALSE,
            error |-> "Checksum mismatch: expected 0xdd, got 0xe0"]

(***************************************************************************)
(* What sendCommand leaves behind                                          *)
(***************************************************************************)
\* C28: whenever sendCommand has settled, by a frame, a write error or the
\* timeout, its 'data' listener has been removed and its timer cancelled.
C28_NoListenerOrTimerLeft ==
  IsSettled(sendPromise) => ~listening /\ ~timer

(***************************************************************************)
(* The parsers of the web UI against validateResponse                      *)
(***************************************************************************)
\* the response id a parser of the web UI looks for; none for the parsers
\* that take any frame
WebExpectedId(d) ==
  IF d \in {"ack", "setSource", "generic"} THEN Null
  ELSE ExpectedResponseId(d)

\* C29: a parser of the web UI reports success only for a byte sequence that
\* validateResponse accepts for that parser's expected response id.
C29_WebParsersValidate ==
  (op = "webParse" /\ out.success) =>
    validateResponse(data, WebExpectedId(decoder)).valid

(***************************************************************************)
(* What a card shows                                                       *)
(***************************************************************************)
\* C30: a card ends an execution as 'success', 'timeout' or 'error', and it
\* shows 'success' only if the parser reported success for the response: a
\* parser result with success = false is never displayed as success.
C30_SuccessOnlyIfParsed ==
  \A c \in Cards :
    /\ ~cleanupRef[c] => status[c] \in {"idle", "success", "timeout", "error"}
    /\ status[c] = "success" => result[c].success = TRUE
====
